---- MODULE Spec2Model ----
(***************************************************************************)
(* A model of the webhook utilities of the SingleKey SDK: WebhookHandler   *)
(* (constructor, verifySignature, parseWebhook) and                        *)
(* constructWebhookSignature.                                              *)
(*                                                                         *)
(* Strings are sequences of one-character strings.  The character          *)
(* "U+00E9" stands for the single non-ASCII character e-acute, whose UTF-8 *)
(* encoding is two bytes.                                                  *)
(***************************************************************************)
EXTENDS Integers, Sequences, FiniteSets, TLC

(***************************************************************************)
(* Characters, UTF-8 and hex encoding                                      *)
(***************************************************************************)

\* The printable ASCII characters in code order, 0x20 .. 0x7e ("U+0060" is the
\* grave accent).
Ascii ==
    << " ", "!", "\"", "#", "$", "%", "&", "'", "(", ")", "*", "+", ",", "-", ".", "/",
       "0", "1", "2", "3", "4", "5", "6", "7", "8", "9", ":", ";", "<", "=", ">", "?",
       "@", "A", "B", "C", "D", "E", "F", "G", "H", "I", "J", "K", "L", "M", "N", "O",
       "P", "Q", "R", "S", "T", "U", "V", "W", "X", "Y", "Z", "[", "\\", "]", "^", "_",
       "U+0060", "a", "b", "c", "d", "e", "f", "g", "h", "i", "j", "k", "l", "m", "n", "o",
       "p", "q", "r", "s", "t", "u", "v", "w", "x", "y", "z", "{", "|", "}", "~" >>

\* The one non-ASCII character of the model (code point 233).
EAcute == "U+00E9"

Chars == {Ascii[i] : i \in 1..Len(Ascii)} \cup {EAcute}

\* The Unicode code point of a character.
CodePoint ==
    [c \in Chars |->
        IF c = EAcute THEN 233
        ELSE 31 + (CHOOSE i \in 1..Len(Ascii) : Ascii[i] = c)]

\* The UTF-8 bytes of one character (one byte below 128, two below 2048).
Utf8Char(c) ==
    IF CodePoint[c] < 128
    THEN << CodePoint[c] >>
    ELSE << 192 + (CodePoint[c] \div 64), 128 + (CodePoint[c] % 64) >>

RECURSIVE Utf8(_)
\* Buffer.from(string) / update(string, 'utf8'): the UTF-8 bytes of a string.
Utf8(s) ==
    IF s = << >> THEN << >> ELSE Utf8Char(Head(s)) \o Utf8(Tail(s))

HexDigits ==
    << "0", "1", "2", "3", "4", "5", "6", "7", "8", "9", "a", "b", "c", "d", "e", "f" >>

RECURSIVE BytesToHex(_)
\* digest('hex'): two lowercase hex digits per byte.
BytesToHex(bs) ==
    IF bs = << >> THEN << >>
    ELSE << HexDigits[(Head(bs) \div 16) + 1], HexDigits[(Head(bs) % 16) + 1] >>
         \o BytesToHex(Tail(bs))

(***************************************************************************)
(* Numbers and strings                                                     *)
(***************************************************************************)

Digits == << "0", "1", "2", "3", "4", "5", "6", "7", "8", "9" >>

IsDigit(c) == \E i \in 1..10 : Digits[i] = c

DigitValue(c) == (CHOOSE i \in 1..10 : Digits[i] = c) - 1

\* The white space parseInt strips, among the characters of the model.
WhiteSpace == {" "}

RECURSIVE TrimStart(_)
TrimStart(s) ==
    IF s # << >> /\ Head(s) \in WhiteSpace THEN TrimStart(Tail(s)) ELSE s

RECURSIVE DigitPrefix(_)
\* The longest prefix of s made of decimal digits.
DigitPrefix(s) ==
    IF s # << >> /\ IsDigit(Head(s)) THEN << Head(s) >> \o DigitPrefix(Tail(s)) ELSE << >>

RECURSIVE DigitsValue(_, _)
DigitsValue(s, acc) ==
    IF s = << >> THEN acc ELSE DigitsValue(Tail(s), 10 * acc + DigitValue(Head(s)))

\* parseInt(string, 10): leading white space is skipped, one sign is read, then
\* the longest run of digits; whatever follows is ignored.  NaN when no digit.
ParseInt(s) ==
    LET t == TrimStart(s)
        negative == t # << >> /\ Head(t) = "-"
        u == IF t # << >> /\ Head(t) \in {"+", "-"} THEN Tail(t) ELSE t
        z == DigitPrefix(u)
    IN  IF z = << >>
        THEN [nan |-> TRUE, value |-> 0]
        ELSE [nan |-> FALSE,
              value |-> IF negative THEN 0 - DigitsValue(z, 0) ELSE DigitsValue(z, 0)]

RECURSIVE NatToString(_)
NatToString(n) ==
    IF n < 10 THEN << Digits[n + 1] >>
    ELSE NatToString(n \div 10) \o << Digits[(n % 10) + 1] >>

\* Number.prototype.toString / template interpolation of an integer.
NumberToString(n) ==
    IF n < 0 THEN << "-" >> \o NatToString(0 - n) ELSE NatToString(n)

Abs(x) == IF x < 0 THEN 0 - x ELSE x

(***************************************************************************)
(* JSON.parse, for the JSON texts made of null, true, false, unsigned and  *)
(* negative integers, strings without escapes, arrays and objects          *)
(***************************************************************************)

JUndefined == [type |-> "undefined"]
JNull == [type |-> "null"]
JBool(b) == [type |-> "boolean", bool |-> b]
JNumber(n) == [type |-> "number", num |-> n]
JString(s) == [type |-> "string", str |-> s]
JArray(xs) == [type |-> "array", items |-> xs]
JObject(ms) == [type |-> "object", members |-> ms]

JsonFail == [ok |-> FALSE, val |-> JUndefined, pos |-> 0]
JsonOk(v, p) == [ok |-> TRUE, val |-> v, pos |-> p]

RECURSIVE JsonSkipWs(_, _)
\* The first position at or after i that holds no white space.
JsonSkipWs(s, i) ==
    IF i <= Len(s) /\ s[i] = " " THEN JsonSkipWs(s, i + 1) ELSE i

\* Whether the characters of word stand in s from position i on.
JsonAt(s, i, word) ==
    /\ i + Len(word) - 1 <= Len(s)
    /\ \A k \in 1..Len(word) : s[i + k - 1] = word[k]

RECURSIVE JsonDigitsEnd(_, _)
\* The position after the run of digits that starts at i.
JsonDigitsEnd(s, i) ==
    IF i <= Len(s) /\ IsDigit(s[i]) THEN JsonDigitsEnd(s, i + 1) ELSE i

\* An integer numeral at i: an optional minus, then 0 or a digit run with no
\* leading zero.
JsonNumber(s, i) ==
    LET neg == i <= Len(s) /\ s[i] = "-"
        d == IF neg THEN i + 1 ELSE i
        e == JsonDigitsEnd(s, d)
        v == DigitsValue(SubSeq(s, d, e - 1), 0)
    IN  IF e = d \/ (s[d] = "0" /\ e > d + 1) \/ (e <= Len(s) /\ s[e] \in {".", "e", "E"})
        THEN JsonFail
        ELSE JsonOk(JNumber(IF neg THEN 0 - v ELSE v), e)

RECURSIVE JsonStringEnd(_, _)
\* The position of the closing quote of the string whose text starts at i; 0 if none.
JsonStringEnd(s, i) ==
    IF i > Len(s) \/ s[i] = "\\" THEN 0
    ELSE IF s[i] = "\"" THEN i
    ELSE JsonStringEnd(s, i + 1)

\* A string at i (s[i] is the opening quote).
JsonString(s, i) ==
    LET e == JsonStringEnd(s, i + 1)
    IN  IF e = 0 THEN JsonFail ELSE JsonOk(JString(SubSeq(s, i + 1, e - 1)), e + 1)

RECURSIVE SetMember(_, _, _)
\* The members ms with key k set to v: a repeated key keeps its place and takes
\* the later value.
SetMember(ms, k, v) ==
    IF ms = << >> THEN << [key |-> k, val |-> v] >>
    ELSE IF Head(ms).key = k THEN << [key |-> k, val |-> v] >> \o Tail(ms)
    ELSE << Head(ms) >> \o SetMember(Tail(ms), k, v)

RECURSIVE JsonValue(_, _)
RECURSIVE JsonElements(_, _, _)
RECURSIVE JsonMembers(_, _, _)

\* The elements of an array from position i on, after the values in acc.
JsonElements(s, i, acc) ==
    LET r == JsonValue(s, i)
        j == JsonSkipWs(s, r.pos)
    IN  IF ~r.ok \/ j > Len(s) THEN JsonFail
        ELSE IF s[j] = "]" THEN JsonOk(JArray(Append(acc, r.val)), j + 1)
        ELSE IF s[j] = "," THEN JsonElements(s, j + 1, Append(acc, r.val))
        ELSE JsonFail

\* The members of an object from position i on, after the members in acc.
JsonMembers(s, i, acc) ==
    LET k == JsonSkipWs(s, i)
        key == IF k <= Len(s) /\ s[k] = "\"" THEN JsonString(s, k) ELSE JsonFail
        c == JsonSkipWs(s, key.pos)
        r == IF key.ok /\ c <= Len(s) /\ s[c] = ":" THEN JsonValue(s, c + 1) ELSE JsonFail
        j == JsonSkipWs(s, r.pos)
    IN  IF ~r.ok \/ j > Len(s) THEN JsonFail
        ELSE IF s[j] = "}" THEN JsonOk(JObject(SetMember(acc, key.val.str, r.val)), j + 1)
        ELSE IF s[j] = "," THEN JsonMembers(s, j + 1, SetMember(acc, key.val.str, r.val))
        ELSE JsonFail

\* The JSON value that starts at or after position i.
JsonValue(s, i) ==
    LET j == JsonSkipWs(s, i)
    IN  IF j > Len(s) THEN JsonFail
        ELSE IF JsonAt(s, j, << "n", "u", "l", "l" >>) THEN JsonOk(JNull, j + 4)
        ELSE IF JsonAt(s, j, << "t", "r", "u", "e" >>) THEN JsonOk(JBool(TRUE), j + 4)
        ELSE IF JsonAt(s, j, << "f", "a", "l", "s", "e" >>) THEN JsonOk(JBool(FALSE), j + 5)
        ELSE IF s[j] = "\"" THEN JsonString(s, j)
        ELSE IF s[j] = "-" \/ IsDigit(s[j]) THEN JsonNumber(s, j)
        ELSE IF s[j] = "["
             THEN IF JsonSkipWs(s, j + 1) <= Len(s) /\ s[JsonSkipWs(s, j + 1)] = "]"
                  THEN JsonOk(JArray(<< >>), JsonSkipWs(s, j + 1) + 1)
                  ELSE JsonElements(s, j + 1, << >>)
        ELSE IF s[j] = "{"
             THEN IF JsonSkipWs(s, j + 1) <= Len(s) /\ s[JsonSkipWs(s, j + 1)] = "}"
                  THEN JsonOk(JObject(<< >>), JsonSkipWs(s, j + 1) + 1)
                  ELSE JsonMembers(s, j + 1, << >>)
        ELSE JsonFail

\* JSON.parse(text): the value of the text, or a SyntaxError (ok = FALSE) when
\* the text is not one JSON value followed by white space only.
JSONParse(s) ==
    LET r == JsonValue(s, 1)
    IN  IF r.ok /\ JsonSkipWs(s, r.pos) = Len(s) + 1
        THEN [ok |-> TRUE, val |-> r.val]
        ELSE [ok |-> FALSE, val |-> JUndefined]

(***************************************************************************)
(* The state: one handler, the clock, the call in progress, the dispatch   *)
(* function made by on(), and the request in the middleware                *)
(***************************************************************************)

VARIABLES
    options,    \* the options the handler was constructed with
    secret,     \* this.secret
    tolerance,  \* this.tolerance
    now,        \* Math.floor(Date.now() / 1000)
    call,       \* the last call made on the handler and its arguments
    result,     \* what that call returned or threw
    disp,       \* the dispatch function on() returned and its call in progress
    accepted,   \* the deliveries verifySignature has returned true for so far
    mw,         \* the last request the middleware handled and what it did
    http,       \* the call in progress on the HttpClient and its outcome
    poll,       \* the waitForCompletion in progress on the ReportService
    sk,         \* the SingleKey client constructed and what getBaseUrl returned
    phone       \* the phone string given to the validation functions, and their results

webhookVars == << options, secret, tolerance, now, call, result, disp, accepted, mw >>
sdkVars == << http, poll, sk, phone >>
vars == << webhookVars, sdkVars >>

(***************************************************************************)
(* HMAC-SHA256 and the comparison of node's crypto module                  *)
(*                                                                         *)
(* The MAC is the ideal one: a function of the key and the message bytes   *)
(* into DigestBytes bytes that maps different (key, message) pairs to      *)
(* different digests.  Here it is the key bytes, a zero byte and the       *)
(* message bytes, filled with zero bytes; the strings of the model hold no *)
(* zero byte and are short enough to fit.                                  *)
(***************************************************************************)

\* The bytes of a SHA-256 digest.
DigestBytes == 32

RECURSIVE Zeros(_)
Zeros(n) == IF n <= 0 THEN << >> ELSE << 0 >> \o Zeros(n - 1)

\* crypto.createHmac('sha256', key).update(msg, 'utf8'): the digest bytes.
HmacSha256(key, msg) ==
    LET raw == Utf8(key) \o << 0 >> \o Utf8(msg)
    IN  SubSeq(raw \o Zeros(DigestBytes - Len(raw)), 1, DigestBytes)

\* .digest('hex')
HmacSha256Hex(key, msg) == BytesToHex(HmacSha256(key, msg))

\* A comparison that looks at the first eight bytes only.
TimingSafeEqual_Prefix(a, b) ==
    [threw |-> Len(a) # Len(b),
     equal |-> Len(a) = Len(b) /\ \A i \in 1..Len(a) : i <= 8 => a[i] = b[i]]

\* crypto.timingSafeEqual(a, b) on two byte buffers: a RangeError when their
\* byte lengths differ, else whether they hold the same bytes.
TimingSafeEqual(a, b) ==
    [threw |-> Len(a) # Len(b), equal |-> Len(a) = Len(b) /\ a = b]

(***************************************************************************)
(* WebhookHandler                                                          *)
(***************************************************************************)

\* WebhookVerificationOptions: both fields are optional.
OptionsOf(secretGiven, secretStr, toleranceGiven, toleranceNum) ==
    [secretGiven |-> secretGiven, secret |-> secretStr,
     toleranceGiven |-> toleranceGiven, tolerance |-> toleranceNum]

DefaultTolerance == 300

\* this.secret = options?.secret
ConstructSecret(opts) ==
    [given |-> opts.secretGiven, str |-> IF opts.secretGiven THEN opts.secret ELSE << >>]

\* this.tolerance = options?.tolerance || 300
ConstructTolerance(opts) ==
    IF opts.toleranceGiven /\ opts.tolerance # 0 THEN opts.tolerance ELSE DefaultTolerance

\* A test for undefined only: the empty string passes for a secret.
SecretConfigured_GivenOnly(key) == key.given

\* The truth value of this.secret: undefined and the empty string are falsy.
SecretConfigured(key) == key.given /\ key.str # << >>

\* The age without Math.abs: a timestamp in the future is never stale.
IsStale_NoAbs(currentTime, webhookTime, tol) == currentTime - webhookTime > tol

\* The comparison with >= : a timestamp exactly tol seconds away is stale.
IsStale_Inclusive(currentTime, webhookTime, tol) == Abs(currentTime - webhookTime) >= tol

\* Math.abs(currentTime - webhookTime) > this.tolerance
IsStale(currentTime, webhookTime, tol) == Abs(currentTime - webhookTime) > tol

\* The signed text with a colon for the separator.
SignedPayload_Colon(timestamp, payload) == timestamp \o << ":" >> \o payload

\* `${timestamp}.${payload}`
SignedPayload(timestamp, payload) == timestamp \o << "." >> \o payload

WebhookVerificationError == "WebhookVerificationError"
RangeError == "RangeError"

MsgNotConfigured == "Webhook secret not configured"
MsgTimestampFormat == "Invalid timestamp format"
MsgStale == "Webhook timestamp too old or from the future"
MsgInvalidSignature == "Invalid webhook signature"
MsgInvalidJson == "Invalid webhook payload JSON"
MsgBufferLength == "Input buffers must have the same byte length"

\* The outcome of a call: what it returned or threw, and the steps it ran.
Returned(st, v, steps) ==
    [status |-> st, errorClass |-> "none", message |-> "", value |-> v, steps |-> steps]
Threw(class, msg, steps) ==
    [status |-> "threw", errorClass |-> class, message |-> msg, value |-> JUndefined,
     steps |-> steps]

\* A verification that computes and compares the digest before it looks at the
\* age of the timestamp.
VerifySignature_DigestFirst(key, tol, currentTime, payload, signature, timestamp) ==
    IF ~SecretConfigured(key)
    THEN Threw(WebhookVerificationError, MsgNotConfigured, << "secret" >>)
    ELSE LET webhookTime == ParseInt(timestamp)
             expectedSignature == HmacSha256Hex(key.str, SignedPayload(timestamp, payload))
             cmp == TimingSafeEqual(Utf8(signature), Utf8(expectedSignature))
             early == << "secret", "clock", "parseInt", "hmac", "timingSafeEqual" >>
         IN  IF webhookTime.nan
             THEN Threw(WebhookVerificationError, MsgTimestampFormat,
                        << "secret", "clock", "parseInt" >>)
             ELSE IF cmp.threw THEN Threw(RangeError, MsgBufferLength, early)
             ELSE IF ~cmp.equal THEN Returned("false", JUndefined, early)
             ELSE IF IsStale(currentTime, webhookTime.value, tol)
             THEN Threw(WebhookVerificationError, MsgStale, early \o << "freshness" >>)
             ELSE Returned("true", JUndefined, early \o << "freshness" >>)

\* verifySignature(payload, signature, timestamp), on a handler whose secret is
\* key and whose tolerance is tol, when Date.now() gives currentTime seconds.
VerifySignature(key, tol, currentTime, payload, signature, timestamp) ==
    IF ~SecretConfigured(key)
    THEN Threw(WebhookVerificationError, MsgNotConfigured, << "secret" >>)
    ELSE LET webhookTime == ParseInt(timestamp)
         IN  IF webhookTime.nan
             THEN Threw(WebhookVerificationError, MsgTimestampFormat,
                        << "secret", "clock", "parseInt" >>)
             ELSE IF IsStale(currentTime, webhookTime.value, tol)
             THEN Threw(WebhookVerificationError, MsgStale,
                        << "secret", "clock", "parseInt", "freshness" >>)
             ELSE LET expectedSignature ==
                          HmacSha256Hex(key.str, SignedPayload(timestamp, payload))
                      cmp == TimingSafeEqual(Utf8(signature), Utf8(expectedSignature))
                      steps == << "secret", "clock", "parseInt", "freshness", "hmac",
                                  "timingSafeEqual" >>
                  IN  IF cmp.threw THEN Threw(RangeError, MsgBufferLength, steps)
                      ELSE Returned(IF cmp.equal THEN "true" ELSE "false", JUndefined, steps)

\* A body parser that returns undefined for a text that is not JSON.
ParseBody_NoThrow(rawPayload, before) ==
    LET parsed == JSONParse(rawPayload)
    IN  Returned("returned", parsed.val, Append(before, "JSON.parse"))

\* The try/catch around JSON.parse in parseWebhook, after the steps before.
ParseBody(rawPayload, before) ==
    LET parsed == JSONParse(rawPayload)
    IN  IF parsed.ok
        THEN Returned("returned", parsed.val, Append(before, "JSON.parse"))
        ELSE Threw(WebhookVerificationError, MsgInvalidJson, Append(before, "JSON.parse"))

\* parseWebhook that parses the body before it verifies the signature.
ParseWebhook_ParseFirst(key, tol, currentTime, rawPayload, signature, timestamp) ==
    LET body == ParseBody(rawPayload, << >>)
        v == VerifySignature(key, tol, currentTime, rawPayload, signature, timestamp)
    IN  IF body.status = "threw" \/ ~SecretConfigured(key) THEN body
        ELSE IF v.status = "threw" THEN v
        ELSE IF v.status = "false"
        THEN Threw(WebhookVerificationError, MsgInvalidSignature, v.steps)
        ELSE ParseBody(rawPayload, v.steps)

\* parseWebhook without the test of this.secret: it always verifies.
ParseWebhook_AlwaysVerify(key, tol, currentTime, rawPayload, signature, timestamp) ==
    LET v == VerifySignature(key, tol, currentTime, rawPayload, signature, timestamp)
    IN  IF v.status = "threw" THEN v
        ELSE IF v.status = "false"
        THEN Threw(WebhookVerificationError, MsgInvalidSignature, v.steps)
        ELSE ParseBody(rawPayload, v.steps)

\* parseWebhook(rawPayload, signature, timestamp)
ParseWebhook(key, tol, currentTime, rawPayload, signature, timestamp) ==
    IF SecretConfigured(key)
    THEN LET v == VerifySignature(key, tol, currentTime, rawPayload, signature, timestamp)
         IN  IF v.status = "threw" THEN v
             ELSE IF v.status = "false"
             THEN Threw(WebhookVerificationError, MsgInvalidSignature, v.steps)
             ELSE ParseBody(rawPayload, v.steps)
    ELSE ParseBody(rawPayload, << >>)

\* The optional timestamp argument of constructWebhookSignature.
TimestampArg(given, num) == [given |-> given, num |-> num]

\* constructWebhookSignature(payload, secret, timestamp?), when Date.now() gives
\* currentTime seconds: timestamp || Math.floor(Date.now() / 1000).
ConstructWebhookSignature(payload, secretStr, timestamp, currentTime) ==
    LET ts == IF timestamp.given /\ timestamp.num # 0 THEN timestamp.num ELSE currentTime
        signedPayload == NumberToString(ts) \o << "." >> \o payload
    IN  [signature |-> HmacSha256Hex(secretStr, signedPayload),
         timestamp |-> NumberToString(ts)]

(***************************************************************************)
(* on(handlers): the dispatch function                                     *)
(***************************************************************************)

\* WebhookEventType: the six event tags.
KnownTags ==
    { "screening.completed", "screening.submitted", "screening.payment_captured",
      "screening.failed", "form.opened", "invite.sent" }

\* What a handler the caller registers does when it is called: it returns, it
\* throws, or it returns a promise that is later fulfilled or rejected.
Behaviours == { "returns", "throws", "resolves", "rejects" }

\* A handler map is an object literal: a function from the tags to a behaviour,
\* or to "absent" for a tag the object has no property for.
NoHandlers == [t \in KnownTags |-> "absent"]

\* The properties every object literal inherits from Object.prototype, among
\* the names of the model: a function that returns when called as a plain
\* function, an object that is no function, or nothing.
ObjectPrototype(name) ==
    CASE name \in { "constructor", "toString" } -> "function"
      [] name = "__proto__" -> "object"
      [] OTHER -> "undefined"

Registered(handlers, tag) == tag \in DOMAIN handlers /\ handlers[tag] # "absent"

\* A lookup that ignores the tag and takes the first handler registered.
Lookup_AnyRegistered(handlers, tag) ==
    IF \E t \in DOMAIN handlers : handlers[t] # "absent"
    THEN LET t == CHOOSE t \in DOMAIN handlers : handlers[t] # "absent"
         IN  [kind |-> "handler", name |-> t, behaviour |-> handlers[t]]
    ELSE [kind |-> "undefined", name |-> tag, behaviour |-> "none"]

\* handlers[webhook.event]: the object's own property, else the one inherited.
Lookup(handlers, tag) ==
    IF Registered(handlers, tag)
    THEN [kind |-> "handler", name |-> tag, behaviour |-> handlers[tag]]
    ELSE CASE ObjectPrototype(tag) = "function" ->
                [kind |-> "inherited", name |-> tag, behaviour |-> "returns"]
           [] ObjectPrototype(tag) = "object" ->
                [kind |-> "object", name |-> tag, behaviour |-> "none"]
           [] OTHER -> [kind |-> "undefined", name |-> tag, behaviour |-> "none"]

NoError == [class |-> "none", from |-> ""]
HandlerError(tag) == [class |-> "HandlerError", from |-> tag]
TypeError(tag) == [class |-> "TypeError", from |-> tag]

WebhookOf(tag, data) == [event |-> tag, data |-> data]
NoWebhook == WebhookOf("", JUndefined)

\* The dispatch function before it is called.
NoDispatch(handlers) ==
    [pc |-> "idle", handlers |-> handlers, webhook |-> NoWebhook, invoked |-> << >>,
     handlerState |-> "none", handlerError |-> NoError,
     outcome |-> "none", error |-> NoError]

\* The dispatch function without the await: it completes once it has called
\* the handler.
Dispatch_NoAwait(d, webhook) ==
    LET h == Lookup(d.handlers, webhook.event)
        started == [d EXCEPT !.webhook = webhook]
        called == [started EXCEPT !.invoked = << [fn |-> h, arg |-> webhook.data] >>]
    IN  IF h.kind = "undefined"
        THEN [started EXCEPT !.pc = "done", !.outcome = "fulfilled"]
        ELSE IF h.kind = "object"
        THEN [started EXCEPT !.pc = "done", !.outcome = "rejected",
                             !.error = TypeError(webhook.event)]
        ELSE IF h.behaviour = "throws"
        THEN [called EXCEPT !.pc = "done", !.handlerState = "threw",
                            !.handlerError = HandlerError(h.name),
                            !.outcome = "rejected", !.error = HandlerError(h.name)]
        ELSE IF h.behaviour = "returns"
        THEN [called EXCEPT !.pc = "done", !.handlerState = "returned",
                            !.outcome = "fulfilled"]
        ELSE [called EXCEPT !.pc = "done", !.handlerState = "pending",
                            !.outcome = "fulfilled"]

\* The dispatch function called with webhook, up to its await: the lookup, the
\* test of the handler and the call of it.  Without a handler the function is
\* complete; a property that is no function, and a handler that throws, reject
\* its promise; else it waits for what the handler returned.
Dispatch(d, webhook) ==
    LET h == Lookup(d.handlers, webhook.event)
        started == [d EXCEPT !.webhook = webhook, !.outcome = "pending"]
        called == [started EXCEPT !.invoked = << [fn |-> h, arg |-> webhook.data] >>]
    IN  IF h.kind = "undefined"
        THEN [started EXCEPT !.pc = "done", !.outcome = "fulfilled"]
        ELSE IF h.kind = "object"
        THEN [started EXCEPT !.pc = "done", !.outcome = "rejected",
                             !.error = TypeError(webhook.event)]
        ELSE IF h.behaviour = "throws"
        THEN [called EXCEPT !.pc = "done", !.handlerState = "threw",
                            !.handlerError = HandlerError(h.name),
                            !.outcome = "rejected", !.error = HandlerError(h.name)]
        ELSE IF h.behaviour = "returns"
        THEN [called EXCEPT !.pc = "awaiting", !.handlerState = "returned"]
        ELSE [called EXCEPT !.pc = "awaiting", !.handlerState = "pending"]

\* The promise the handler returned settles.
Settle(d) ==
    IF d.invoked[1].fn.behaviour = "rejects"
    THEN [d EXCEPT !.handlerState = "rejected",
                   !.handlerError = HandlerError(d.invoked[1].fn.name)]
    ELSE [d EXCEPT !.handlerState = "fulfilled"]

\* A continuation that catches the handler's rejection.
Resume_Swallow(d) == [d EXCEPT !.pc = "done", !.outcome = "fulfilled"]

\* The continuation of the await: the dispatch function completes, with the
\* handler's error when its promise was rejected.
Resume(d) ==
    IF d.handlerState = "rejected"
    THEN [d EXCEPT !.pc = "done", !.outcome = "rejected", !.error = d.handlerError]
    ELSE [d EXCEPT !.pc = "done", !.outcome = "fulfilled"]

(***************************************************************************)
(* webhookMiddleware(options)                                              *)
(***************************************************************************)

\* A header of the request: absent, or a string.
Header(given, str) == [given |-> given, str |-> str]
NoHeader == Header(FALSE, << >>)

\* req.body: the raw body as a Buffer, or undefined when no body parser ran.
Body(kind, text) == [kind |-> kind, text |-> text]

\* The request, and whether the next() of the application throws.
RequestOf(body, signature, timestamp, nextThrows) ==
    [body |-> body, signature |-> signature, timestamp |-> timestamp,
     nextThrows |-> nextThrows]

MsgMissingHeaders == "Missing webhook headers"
MsgInvalidPayload == "Invalid webhook payload"

\* What the middleware did with a request: the status and the error of the
\* response it sent (status 0: none sent), the calls of next(), and the value
\* it attached as req.singlekeyWebhook.
Outcome(req, clock, status, error, nextCalls, attached) ==
    [handled |-> TRUE, req |-> req, clock |-> clock, status |-> status, error |-> error,
     nextCalls |-> nextCalls, attached |-> attached]

NoRequest ==
    [handled |-> FALSE, req |-> RequestOf(Body("undefined", << >>), NoHeader, NoHeader, FALSE),
     clock |-> 0, status |-> 0, error |-> "", nextCalls |-> 0, attached |-> JUndefined]

\* The truth value of a header read from req.headers.
Truthy(h) == h.given /\ h.str # << >>

\* The function webhookMiddleware returns, on a handler with key and tol, when
\* the clock reads currentTime.  Everything is inside one try: a body that is
\* undefined, any error of parseWebhook, and an error thrown by next().
Middleware(key, tol, currentTime, req) ==
    IF req.body.kind = "undefined"
    THEN Outcome(req, currentTime, 400, MsgInvalidPayload, 0, JUndefined)
    ELSE IF ~Truthy(req.signature) \/ ~Truthy(req.timestamp)
    THEN Outcome(req, currentTime, 400, MsgMissingHeaders, 0, JUndefined)
    ELSE LET r == ParseWebhook(key, tol, currentTime,
                               req.body.text, req.signature.str, req.timestamp.str)
         IN  IF r.status = "returned"
             THEN IF req.nextThrows
                  THEN Outcome(req, currentTime, 400, MsgInvalidPayload, 1, r.value)
                  ELSE Outcome(req, currentTime, 0, "", 1, r.value)
             ELSE IF r.errorClass = WebhookVerificationError
             THEN Outcome(req, currentTime, 401, r.message, 0, JUndefined)
             ELSE Outcome(req, currentTime, 400, MsgInvalidPayload, 0, JUndefined)

(***************************************************************************)
(* The errors of the SDK, and HttpClient.handleError                       *)
(***************************************************************************)

\* The classes of errors/index.ts: each extends SingleKeyError.
SingleKeyErrors ==
    { "SingleKeyError", "AuthenticationError", "ValidationError", "NotFoundError",
      "RateLimitError", "ServerError", "APIError", "ConfigurationError" }

\* error instanceof SingleKeyError, for an error of class c; "Error" is the
\* built-in class.
InstanceOfSingleKeyError(c) == c \in SingleKeyErrors

\* statusCode = 500 in the constructor of ServerError.
DefaultStatusCode == 500

\* An AxiosError: with no response (network error, timeout), or with the
\* status of the response and whether its body has a detail.
AxiosError(hasResponse, status, hasDetail) ==
    [hasResponse |-> hasResponse, status |-> status, hasDetail |-> hasDetail]

\* An SDK error: its class, its message, and its statusCode (0: it has none).
SdkError(class, message, statusCode) ==
    [class |-> class, message |-> message, statusCode |-> statusCode]
NoSdkError == SdkError("none", "", 0)

\* errorData?.detail || error.message
ErrorMessage(error) == IF error.hasDetail THEN "detail" ELSE "error.message"

\* handleError(error): the switch on the status of the response.
HandleError(error) ==
    IF ~error.hasResponse
    THEN SdkError("ServerError", "Network error", DefaultStatusCode)
    ELSE CASE error.status = 400 -> SdkError("ValidationError", ErrorMessage(error), 0)
           [] error.status = 401 -> SdkError("AuthenticationError", ErrorMessage(error), 0)
           [] error.status = 404 -> SdkError("NotFoundError", ErrorMessage(error), 0)
           [] error.status = 429 -> SdkError("RateLimitError", ErrorMessage(error), 0)
           [] error.status \in { 500, 502, 503, 504 } ->
                SdkError("ServerError", ErrorMessage(error), error.status)
           [] OTHER -> SdkError("APIError", ErrorMessage(error), error.status)

\* What axios did with a request: a response with a status axios accepts, or
\* an AxiosError.
AxiosResult(ok, error) == [ok |-> ok, error |-> error]

\* get, post, put, delete and download: the data of the response, or the
\* error handleError makes of whatever was thrown inside the try.
HttpOutcome(op, res) ==
    IF res.ok
    THEN [called |-> TRUE, op |-> op, res |-> res, status |-> "returned",
          error |-> NoSdkError]
    ELSE [called |-> TRUE, op |-> op, res |-> res, status |-> "threw",
          error |-> HandleError(res.error)]

NoHttp ==
    [called |-> FALSE, op |-> "none",
     res |-> AxiosResult(TRUE, AxiosError(FALSE, 0, FALSE)),
     status |-> "none", error |-> NoSdkError]

(***************************************************************************)
(* ReportService.waitForCompletion                                         *)
(***************************************************************************)

DefaultMaxAttempts == 40
DefaultIntervalMs == 10000

\* The options argument: each field may be left out.
PollOptions(maxGiven, maxAttempts, intervalGiven, intervalMs) ==
    [maxGiven |-> maxGiven, maxAttempts |-> maxAttempts,
     intervalGiven |-> intervalGiven, intervalMs |-> intervalMs]

\* options.x || default, for a number x.
OrDefault(given, n, default) == IF given /\ n # 0 THEN n ELSE default

\* What this.get resolves to or rejects with: a report, or an AxiosError.
ReportOf(success, hasScore) ==
    [kind |-> "report", success |-> success, hasScore |-> hasScore,
     error |-> AxiosError(FALSE, 0, FALSE)]
GetFailed(error) ==
    [kind |-> "error", success |-> FALSE, hasScore |-> FALSE, error |-> error]

\* report.success && 'singlekey_score' in report
IsComplete(report) == report.kind = "report" /\ report.success /\ report.hasScore

NoPoll ==
    [pc |-> "idle", options |-> PollOptions(FALSE, 0, FALSE, 0),
     maxAttempts |-> 0, intervalMs |-> 0, attempt |-> 0, trace |-> << >>,
     incomplete |-> 0, last |-> ReportOf(FALSE, FALSE),
     status |-> "none", error |-> NoSdkError]

\* The test of the for loop: the next poll starts, or the loop is over and the
\* plain Error of line 84 is thrown.
LoopTest(p) ==
    IF p.attempt < p.maxAttempts
    THEN [p EXCEPT !.pc = "polling", !.trace = Append(@, "poll")]
    ELSE [p EXCEPT !.pc = "done", !.status = "threw",
                   !.error = SdkError("Error", "Report did not complete", 0)]

\* waitForCompletion(purchaseToken, opts) up to its first await.
WaitForCompletion(opts) ==
    LoopTest([NoPoll EXCEPT
                !.options = opts,
                !.maxAttempts = OrDefault(opts.maxGiven, opts.maxAttempts, DefaultMaxAttempts),
                !.intervalMs = OrDefault(opts.intervalGiven, opts.intervalMs, DefaultIntervalMs)])

\* A loop that sleeps after every poll that was not complete, the last too.
AfterGet_SleepAlways(p, res) ==
    IF res.kind = "error"
    THEN [p EXCEPT !.pc = "done", !.last = res, !.status = "threw",
                   !.error = HandleError(res.error)]
    ELSE IF IsComplete(res)
    THEN [p EXCEPT !.pc = "done", !.last = res, !.status = "returned"]
    ELSE [p EXCEPT !.pc = "sleeping", !.incomplete = @ + 1,
                   !.trace = Append(@, "sleep")]

\* The loop after await this.get: the error of the get propagates, a complete
\* report is returned, and else the loop sleeps unless this was the last
\* attempt.
AfterGet(p, res) ==
    IF res.kind = "error"
    THEN [p EXCEPT !.pc = "done", !.last = res, !.status = "threw",
                   !.error = HandleError(res.error)]
    ELSE IF IsComplete(res)
    THEN [p EXCEPT !.pc = "done", !.last = res, !.status = "returned"]
    ELSE IF p.attempt < p.maxAttempts - 1
    THEN [p EXCEPT !.pc = "sleeping", !.incomplete = @ + 1,
                   !.trace = Append(@, "sleep")]
    ELSE LoopTest([p EXCEPT !.incomplete = @ + 1, !.attempt = @ + 1])

\* The loop after await this.sleep: attempt++ and the test.
AfterSleep(p) == LoopTest([p EXCEPT !.attempt = @ + 1])

(***************************************************************************)
(* utils/validation.ts: phone numbers                                      *)
(***************************************************************************)

\* phone.replace(/\D/g, ''): the characters 0 to 9 of the string, in order.
DigitsOnly(s) == SelectSeq(s, IsDigit)

\* isValidPhone(phone)
IsValidPhone(s) == Len(DigitsOnly(s)) = 10 \/ Len(DigitsOnly(s)) = 11

\* normalizePhone(phone)
NormalizePhone(s) ==
    LET digitsOnly == DigitsOnly(s)
    IN  IF Len(digitsOnly) = 11 /\ digitsOnly[1] = "1"
        THEN SubSeq(digitsOnly, 2, Len(digitsOnly))
        ELSE digitsOnly

NoPhone == [given |-> FALSE, input |-> << >>, valid |-> FALSE, normalized |-> << >>]

(***************************************************************************)
(* The SingleKey client: its configuration and base URL                    *)
(***************************************************************************)

\* An optional field of SingleKeyConfig.
Field(given, val) == [given |-> given, val |-> val]

\* SingleKeyConfig: apiToken is a sequence of characters, environment and
\* baseUrl are strings, timeout is a number.
ConfigOf(apiToken, environment, baseUrl, timeout) ==
    [apiToken |-> apiToken, environment |-> environment, baseUrl |-> baseUrl,
     timeout |-> timeout]

\* ENVIRONMENT_URLS, and the two literals of getBaseUrl.
SandboxUrl == "https://sandbox.singlekey.com"
ProductionUrl == "https://platform.singlekey.com"

\* The truth value of an optional string, and of an optional number.
TruthyString(f, empty) == f.given /\ f.val # empty
TruthyNumber(f) == f.given /\ f.val # 0

\* validateConfig(config): the message of the ConfigurationError, or "" when
\* the configuration is accepted.
ValidateConfig(c) ==
    IF ~TruthyString(c.apiToken, << >>) THEN "API token is required"
    ELSE IF \A i \in 1..Len(c.apiToken.val) : c.apiToken.val[i] \in WhiteSpace
    THEN "API token must be a non-empty string"
    ELSE IF TruthyString(c.environment, "")
            /\ c.environment.val \notin { "sandbox", "production" }
    THEN "Environment must be \"sandbox\" or \"production\""
    ELSE IF TruthyNumber(c.timeout) /\ c.timeout.val < 0
    THEN "Timeout must be a positive number"
    ELSE ""

\* The baseURL the HttpClient gives axios:
\* config.baseUrl || ENVIRONMENT_URLS[config.environment || 'production']
HttpClientBaseURL(c) ==
    IF TruthyString(c.baseUrl, "") THEN c.baseUrl.val
    ELSE LET environment ==
                 IF TruthyString(c.environment, "") THEN c.environment.val
                 ELSE "production"
         IN  CASE environment = "sandbox" -> SandboxUrl
               [] environment = "production" -> ProductionUrl
               [] OTHER -> "undefined"

\* A getBaseUrl that looks at the environment only.
GetBaseUrl_EnvironmentOnly(c) ==
    IF c.environment.given /\ c.environment.val = "sandbox"
    THEN SandboxUrl ELSE ProductionUrl

\* getBaseUrl(), on a client whose this.config is c.
GetBaseUrl(c) ==
    IF TruthyString(c.baseUrl, "") THEN c.baseUrl.val
    ELSE IF c.environment.given /\ c.environment.val = "sandbox"
    THEN SandboxUrl ELSE ProductionUrl

\* new SingleKey(config): the ConfigurationError of validateConfig, or the
\* client with its config and the base URL of its HttpClient.
NewSingleKey(c) ==
    [made |-> TRUE, config |-> c, error |-> ValidateConfig(c),
     httpBaseURL |-> IF ValidateConfig(c) = "" THEN HttpClientBaseURL(c) ELSE "",
     asked |-> FALSE, baseUrl |-> ""]

NoClient ==
    [made |-> FALSE,
     config |-> ConfigOf(Field(FALSE, << >>), Field(FALSE, ""), Field(FALSE, ""),
                         Field(FALSE, 0)),
     error |-> "", httpBaseURL |-> "", asked |-> FALSE, baseUrl |-> ""]

\* Nothing is in progress on the client.
SdkIdle == http = NoHttp /\ poll = NoPoll /\ sk = NoClient /\ phone = NoPhone

\* The clock starts at StartTime and is followed for ClockSpan seconds.
StartTime == 1000
ClockSpan == 1

\* --- the inputs ---------------------------------------------------------

Key1 == << "k" >>
Key2 == << "z" >>

\* The options a handler is constructed with.
OptionsSet ==
    { OptionsOf(FALSE, << >>, FALSE, 0),
      OptionsOf(TRUE, << >>, TRUE, 300),
      OptionsOf(TRUE, Key1, FALSE, 0),
      OptionsOf(TRUE, Key1, TRUE, 0),
      OptionsOf(TRUE, Key1, TRUE, 1),
      OptionsOf(TRUE, Key1, TRUE, 300) }

PEvent == << "{", "\"", "e", "v", "e", "n", "t", "\"", ":", "\"", "a", "\"", "}" >>
PNull == << "n", "u", "l", "l" >>
PNumber == << "7" >>
PCut == << "{", "\"", "e", "v", "e", "n", "t", "\"" >>
PEmpty == << >>

\* The request bodies: three JSON texts and two texts that are not JSON.
Payloads == { PEvent, PNull, PNumber, PCut, PEmpty }

\* The distances of a timestamp from the clock, around the tolerances in use.
Offsets == { 0 - 301, 0 - 300, 0 - 2, 0 - 1, 0, 1, 2, 300, 301 }

\* Timestamp header values that are not plain decimal numerals.
OddTimestamps(t) ==
    { << >>, << "x" >>,
      NumberToString(t) \o << "x" >>,
      << " " >> \o NumberToString(t),
      << "+" >> \o NumberToString(t),
      << "-" >> \o NumberToString(t),
      << "0" >> \o NumberToString(t) }

TimestampInputs(t) == { NumberToString(t + d) : d \in Offsets } \cup OddTimestamps(t)

ReplaceAt(s, i, c) == [s EXCEPT ![i] = c]

UpperHex(c) ==
    CASE c = "a" -> "A" [] c = "b" -> "B" [] c = "c" -> "C"
      [] c = "d" -> "D" [] c = "e" -> "E" [] c = "f" -> "F" [] OTHER -> c

ToUpperCase(s) == [i \in 1..Len(s) |-> UpperHex(s[i])]

\* The key of a sender that knows the handler's secret.
SenderKey == IF SecretConfigured(secret) THEN secret.str ELSE Key1

\* Signature header values for a body and a timestamp: the sender's digest,
\* the digest under another key, and damaged forms of the sender's digest.
SignatureInputs(p, ts) ==
    LET good == HmacSha256Hex(SenderKey, SignedPayload(ts, p))
    IN  { good,
          HmacSha256Hex(Key2, SignedPayload(ts, p)),
          ToUpperCase(good),
          << >>,
          SubSeq(good, 1, Len(good) - 1),
          good \o << "0" >>,
          ReplaceAt(good, 1, EAcute) }

\* The timestamp arguments given to constructWebhookSignature: none, zero, and
\* times around the clock.
TimestampArgs(t) ==
    { TimestampArg(FALSE, 0), TimestampArg(TRUE, 0) }
    \cup { TimestampArg(TRUE, t + d) : d \in { 0 - 301, 0 - 300, 0, 300, 301 } }

\* The bodies and the secrets fixtures are signed with.
FixturePayloads == { PEvent, PCut }
FixtureSecrets == { Key1, Key2, << >> }

\* The timestamps of the deliveries that get tampered with.
BaseTimestamps(t) ==
    { NumberToString(t), NumberToString(t - 300), NumberToString(t + 1),
      << " " >> \o NumberToString(t) }

\* The characters a tampered character is changed to.
Replacements(target) ==
    CASE target = "payload" -> { "x", " " }
      [] target = "signature" -> { "0", "1", "F", EAcute }
      [] target = "timestamp" -> { "0", "1", "9", "x", " ", "+", "-" }

Triple(p, sig, ts) == [payload |-> p, signature |-> sig, timestamp |-> ts]
NoTriple == Triple(<< >>, << >>, << >>)

Fixture(s, t, at, r) ==
    [made |-> TRUE, secret |-> s, arg |-> t, signedAt |-> at,
     signature |-> r.signature, timestamp |-> r.timestamp]
NoFixture ==
    [made |-> FALSE, secret |-> << >>, arg |-> TimestampArg(FALSE, 0), signedAt |-> 0,
     signature |-> << >>, timestamp |-> << >>]

\* A call record: the operation, its arguments, the clock at the call, and where
\* the arguments come from (the delivery tampered with, or the fixture signed).
MkCall(op, p, sig, ts, clock, origin, base, target, fixture) ==
    [op |-> op, payload |-> p, signature |-> sig, timestamp |-> ts, clock |-> clock,
     origin |-> origin, base |-> base, target |-> target, fixture |-> fixture]

NoCall == MkCall("none", << >>, << >>, << >>, 0, "none", NoTriple, "none", NoFixture)
NoResult == Returned("none", JUndefined, << >>)

Init ==
    /\ options \in OptionsSet
    /\ secret = ConstructSecret(options)
    /\ tolerance = ConstructTolerance(options)
    /\ now = StartTime
    /\ call = NoCall
    /\ result = NoResult
    /\ disp = NoDispatch(NoHandlers)
    /\ accepted = { }
    /\ mw = NoRequest
    /\ SdkIdle

\* --- the actions --------------------------------------------------------

\* A second passes.
Tick ==
    /\ now < StartTime + ClockSpan
    /\ now' = now + 1
    /\ UNCHANGED << options, secret, tolerance, call, result, disp, accepted, mw, sdkVars >>

\* handler.verifySignature(p, sig, ts)
CallVerifySignature ==
    /\ call.op = "none"
    /\ \E p \in Payloads, ts \in TimestampInputs(now) :
         \E sig \in SignatureInputs(p, ts) :
            /\ call' = MkCall("verifySignature", p, sig, ts, now, "direct",
                               NoTriple, "none", NoFixture)
            /\ result' = VerifySignature(secret, tolerance, now, p, sig, ts)
    /\ UNCHANGED << options, secret, tolerance, now, disp, accepted, mw, sdkVars >>

\* handler.parseWebhook(p, sig, ts)
CallParseWebhook ==
    /\ call.op = "none"
    /\ \E p \in Payloads, ts \in TimestampInputs(now) :
         \E sig \in SignatureInputs(p, ts) :
            /\ call' = MkCall("parseWebhook", p, sig, ts, now, "direct",
                               NoTriple, "none", NoFixture)
            /\ result' = ParseWebhook(secret, tolerance, now, p, sig, ts)
    /\ UNCHANGED << options, secret, tolerance, now, disp, accepted, mw, sdkVars >>

\* A fixture is signed with constructWebhookSignature(p, s, t) when the clock
\* reads signedAt, and verified now: with the timestamp the fixture carries or,
\* when t was given, with t written as a string.
SignAndVerify ==
    /\ call.op = "none"
    /\ \E p \in FixturePayloads, s \in FixtureSecrets, signedAt \in StartTime..now :
         \E t \in TimestampArgs(signedAt) :
            LET r == ConstructWebhookSignature(p, s, t, signedAt)
            IN  \E ts \in { r.timestamp }
                          \cup (IF t.given THEN { NumberToString(t.num) } ELSE { }) :
                   /\ call' = MkCall("verifySignature", p, r.signature, ts, now,
                                      "fixture", NoTriple, "none",
                                      Fixture(s, t, signedAt, r))
                   /\ result' = VerifySignature(secret, tolerance, now,
                                                 p, r.signature, ts)
    /\ UNCHANGED << options, secret, tolerance, now, disp, accepted, mw, sdkVars >>

\* The one string of a triple that target names.
Part(tr, target) ==
    CASE target = "payload" -> tr.payload
      [] target = "signature" -> tr.signature
      [] target = "timestamp" -> tr.timestamp

\* The triple tr with character i of the string target names changed to c.
Tamper(tr, target, i, c) ==
    CASE target = "payload" -> [tr EXCEPT !.payload = ReplaceAt(tr.payload, i, c)]
      [] target = "signature" -> [tr EXCEPT !.signature = ReplaceAt(tr.signature, i, c)]
      [] target = "timestamp" -> [tr EXCEPT !.timestamp = ReplaceAt(tr.timestamp, i, c)]

\* A delivery that verifies as true has one character of its body, signature or
\* timestamp changed, and is verified.
TamperAndVerify ==
    /\ call.op = "none"
    /\ \E ts \in BaseTimestamps(now) :
         LET p == PEvent
             base == Triple(p, HmacSha256Hex(SenderKey, SignedPayload(ts, p)), ts)
         IN  /\ VerifySignature(secret, tolerance, now,
                                base.payload, base.signature, base.timestamp).status = "true"
             /\ \E target \in { "payload", "signature", "timestamp" } :
                  \E i \in 1..Len(Part(base, target)) :
                     \E c \in Replacements(target) \ { Part(base, target)[i] } :
                        LET tr == Tamper(base, target, i, c)
                        IN  /\ call' = MkCall("verifySignature", tr.payload, tr.signature,
                                               tr.timestamp, now, "tamper", base, target,
                                               NoFixture)
                            /\ result' = VerifySignature(secret, tolerance, now,
                                               tr.payload, tr.signature, tr.timestamp)
    /\ UNCHANGED << options, secret, tolerance, now, disp, accepted, mw, sdkVars >>

\* The caller takes the outcome; the handler is ready for the next call.
Return ==
    /\ call.op # "none"
    /\ call' = NoCall
    /\ result' = NoResult
    /\ UNCHANGED << options, secret, tolerance, now, disp, accepted, mw, sdkVars >>

Next ==
    \/ Tick
    \/ CallVerifySignature
    \/ CallParseWebhook
    \/ SignAndVerify
    \/ TamperAndVerify
    \/ Return

Spec == Init /\ [][Next]_vars

(***************************************************************************)
(* The dispatch function: processWebhook = handler.on(handlers)            *)
(***************************************************************************)

\* The handler maps: any behaviour, or none, for three of the tags.
HandlerMaps ==
    { h \in [KnownTags -> Behaviours \cup { "absent" }] :
        \A t \in KnownTags \ { "screening.completed", "screening.failed", "invite.sent" } :
            h[t] = "absent" }

\* The tags of the events dispatched: the six known ones, a new one, one that
\* differs from a known one in case, and three names of Object.prototype.
EventTags ==
    KnownTags \cup { "new.unknown.tag", "Invite.Sent", "constructor", "toString", "__proto__" }

EventData == { JObject(<< >>), JNumber(7) }

InitDispatch ==
    /\ options = OptionsOf(TRUE, Key1, FALSE, 0)
    /\ secret = ConstructSecret(options)
    /\ tolerance = ConstructTolerance(options)
    /\ now = StartTime
    /\ call = NoCall
    /\ result = NoResult
    /\ \E h \in HandlerMaps : disp = NoDispatch(h)
    /\ accepted = { }
    /\ mw = NoRequest
    /\ SdkIdle

\* processWebhook(webhook)
DispatchCall ==
    /\ disp.pc = "idle"
    /\ \E tag \in EventTags, data \in EventData :
         disp' = Dispatch(disp, WebhookOf(tag, data))
    /\ UNCHANGED << options, secret, tolerance, now, call, result, accepted, mw, sdkVars >>

\* The asynchronous work of the handler that was called ends.
HandlerSettles ==
    /\ disp.handlerState = "pending"
    /\ disp' = Settle(disp)
    /\ UNCHANGED << options, secret, tolerance, now, call, result, accepted, mw, sdkVars >>

\* The dispatch function goes on after its await.
DispatchResumes ==
    /\ disp.pc = "awaiting"
    /\ disp.handlerState \in { "returned", "fulfilled", "rejected" }
    /\ disp' = Resume(disp)
    /\ UNCHANGED << options, secret, tolerance, now, call, result, accepted, mw, sdkVars >>

\* The caller has the outcome of the dispatch; the function may be called again.
DispatchReturn ==
    /\ disp.pc = "done"
    /\ disp' = NoDispatch(disp.handlers)
    /\ UNCHANGED << options, secret, tolerance, now, call, result, accepted, mw, sdkVars >>

NextDispatch ==
    \/ DispatchCall
    \/ HandlerSettles
    \/ DispatchResumes
    \/ DispatchReturn

SpecDispatch == InitDispatch /\ [][NextDispatch]_vars

(***************************************************************************)
(* One handler in use: deliveries presented once and again, and events     *)
(* dispatched in between                                                   *)
(***************************************************************************)

\* The deliveries presented, each at any time: one body, sent when the clock
\* started or as long before as the default tolerance allows, signed by the
\* sender or under another key.
ReplayDeliveries ==
    { Triple(PEvent,
             HmacSha256Hex(k, SignedPayload(NumberToString(StartTime - d), PEvent)),
             NumberToString(StartTime - d)) :
        k \in { SenderKey, Key2 }, d \in { 0, DefaultTolerance } }

\* Whether the delivery was accepted by an earlier call.
Origin(d) == IF d \in accepted THEN "replay" ELSE "first"

InitReplay ==
    /\ options \in { OptionsOf(TRUE, Key1, FALSE, 0), OptionsOf(TRUE, Key1, TRUE, 1) }
    /\ secret = ConstructSecret(options)
    /\ tolerance = ConstructTolerance(options)
    /\ now = StartTime
    /\ call = NoCall
    /\ result = NoResult
    /\ disp = NoDispatch([NoHandlers EXCEPT !["invite.sent"] = "resolves"])
    /\ accepted = { }
    /\ mw = NoRequest
    /\ SdkIdle

\* A handler that remembers the deliveries it accepted and refuses them after.
ReplayVerify_Dedup ==
    /\ call.op = "none"
    /\ \E d \in ReplayDeliveries :
         /\ call' = MkCall("verifySignature", d.payload, d.signature, d.timestamp, now,
                            Origin(d), NoTriple, "none", NoFixture)
         /\ result' = IF d \in accepted
                       THEN Returned("false", JUndefined, << >>)
                       ELSE VerifySignature(secret, tolerance, now,
                                            d.payload, d.signature, d.timestamp)
         /\ accepted' = IF result'.status = "true" THEN accepted \cup { d } ELSE accepted
    /\ UNCHANGED << options, secret, tolerance, now, disp, mw, sdkVars >>

\* handler.verifySignature on a delivery, new or seen before.
ReplayVerify ==
    /\ call.op = "none"
    /\ \E d \in ReplayDeliveries :
         /\ call' = MkCall("verifySignature", d.payload, d.signature, d.timestamp, now,
                            Origin(d), NoTriple, "none", NoFixture)
         /\ result' = VerifySignature(secret, tolerance, now,
                                       d.payload, d.signature, d.timestamp)
         /\ accepted' = IF result'.status = "true" THEN accepted \cup { d } ELSE accepted
    /\ UNCHANGED << options, secret, tolerance, now, disp, mw, sdkVars >>

\* handler.parseWebhook on a delivery, new or seen before.
ReplayParse ==
    /\ call.op = "none"
    /\ \E d \in ReplayDeliveries :
         /\ call' = MkCall("parseWebhook", d.payload, d.signature, d.timestamp, now,
                            Origin(d), NoTriple, "none", NoFixture)
         /\ result' = ParseWebhook(secret, tolerance, now,
                                    d.payload, d.signature, d.timestamp)
         /\ accepted' = IF result'.status = "returned" THEN accepted \cup { d } ELSE accepted
    /\ UNCHANGED << options, secret, tolerance, now, disp, mw, sdkVars >>

NextReplay ==
    \/ Tick
    \/ ReplayVerify
    \/ ReplayParse
    \/ Return
    \/ DispatchCall
    \/ HandlerSettles
    \/ DispatchResumes
    \/ DispatchReturn

SpecReplay == InitReplay /\ [][NextReplay]_vars

(***************************************************************************)
(* The middleware in an application                                        *)
(***************************************************************************)

\* The bodies of the requests.
RequestBodies ==
    { Body("undefined", << >>) } \cup { Body("buffer", p) : p \in { PEvent, PCut, PNull } }

\* The x-singlekey-timestamp headers: none, empty, the clock, a stale time,
\* the clock followed by a letter, and a word.
TimestampHeaders(t) ==
    { NoHeader, Header(TRUE, << >>), Header(TRUE, NumberToString(t)),
      Header(TRUE, NumberToString(t - DefaultTolerance - 1)),
      Header(TRUE, NumberToString(t) \o << "x" >>),
      Header(TRUE, << "a", "b", "c" >>) }

\* The x-singlekey-signature headers for a body and a timestamp: none, empty,
\* the sender's digest, the digest under another key, the sender's digest
\* without its last digit, and a word.
SignatureHeaders(p, ts) ==
    LET good == HmacSha256Hex(SenderKey, SignedPayload(ts, p))
    IN  { NoHeader, Header(TRUE, << >>), Header(TRUE, good),
          Header(TRUE, HmacSha256Hex(Key2, SignedPayload(ts, p))),
          Header(TRUE, SubSeq(good, 1, Len(good) - 1)),
          Header(TRUE, << "a", "b", "c" >>) }

InitMiddleware ==
    /\ options \in { OptionsOf(TRUE, Key1, FALSE, 0), OptionsOf(TRUE, Key1, TRUE, 1),
                      OptionsOf(TRUE, << >>, FALSE, 0), OptionsOf(FALSE, << >>, FALSE, 0) }
    /\ secret = ConstructSecret(options)
    /\ tolerance = ConstructTolerance(options)
    /\ now = StartTime
    /\ call = NoCall
    /\ result = NoResult
    /\ disp = NoDispatch(NoHandlers)
    /\ accepted = { }
    /\ mw = NoRequest
    /\ SdkIdle

\* A request reaches the middleware.
Request ==
    /\ ~mw.handled
    /\ \E body \in RequestBodies, ts \in TimestampHeaders(now), nextThrows \in BOOLEAN :
         \E sig \in SignatureHeaders(body.text, ts.str) :
            mw' = Middleware(secret, tolerance, now,
                             RequestOf(body, sig, ts, nextThrows))
    /\ UNCHANGED << options, secret, tolerance, now, call, result, disp, accepted, sdkVars >>

\* The response is sent or the application has run; the next request may come.
RequestDone ==
    /\ mw.handled
    /\ mw' = NoRequest
    /\ UNCHANGED << options, secret, tolerance, now, call, result, disp, accepted, sdkVars >>

NextMiddleware ==
    \/ Tick
    \/ Request
    \/ RequestDone

SpecMiddleware == InitMiddleware /\ [][NextMiddleware]_vars

(***************************************************************************)
(* The HttpClient in use                                                   *)
(***************************************************************************)

\* Nothing is in progress on the webhook handler.
WebhookIdle ==
    /\ options = OptionsOf(FALSE, << >>, FALSE, 0)
    /\ secret = ConstructSecret(options)
    /\ tolerance = ConstructTolerance(options)
    /\ now = StartTime
    /\ call = NoCall
    /\ result = NoResult
    /\ disp = NoDispatch(NoHandlers)
    /\ accepted = { }
    /\ mw = NoRequest

\* The statuses of the responses axios rejects.
ErrorStatuses == { 304, 400, 401, 403, 404, 418, 429, 500, 501, 502, 503, 504, 505, 599 }

\* What axios does with a request.
AxiosResults ==
    { AxiosResult(TRUE, AxiosError(FALSE, 0, FALSE)),
      AxiosResult(FALSE, AxiosError(FALSE, 0, FALSE)) }
    \cup { AxiosResult(FALSE, AxiosError(TRUE, st, d)) :
              st \in ErrorStatuses, d \in BOOLEAN }

HttpOps == { "get", "post", "put", "delete", "download" }

\* A client on which nothing was called yet.
InitSdk == WebhookIdle /\ SdkIdle

\* A call of get, post, put, delete or download, to its end.
HttpCall ==
    /\ ~http.called
    /\ \E op \in HttpOps, res \in AxiosResults : http' = HttpOutcome(op, res)
    /\ UNCHANGED << webhookVars, poll, sk, phone >>

\* The caller has the outcome.
HttpReturn ==
    /\ http.called
    /\ http' = NoHttp
    /\ UNCHANGED << webhookVars, poll, sk, phone >>

NextHttp ==
    \/ HttpCall
    \/ HttpReturn

SpecHttp == InitSdk /\ [][NextHttp]_vars

(***************************************************************************)
(* The ReportService polling                                               *)
(***************************************************************************)

\* The largest maxAttempts given.
MaxGiven == 3

PollOptionsSet ==
    { PollOptions(FALSE, 0, ig, i) : ig \in BOOLEAN, i \in { 0, 5000 } }
    \cup { PollOptions(TRUE, m, ig, i) :
              m \in 0..MaxGiven, ig \in BOOLEAN, i \in { 0, 5000 } }

\* What a poll gets: a report, complete or not, or an error of the HttpClient.
GetResults ==
    { ReportOf(su, sc) : su \in BOOLEAN, sc \in BOOLEAN }
    \cup { GetFailed(AxiosError(FALSE, 0, FALSE)) }
    \cup { GetFailed(AxiosError(TRUE, st, FALSE)) : st \in { 404, 501 } }

\* client.report.waitForCompletion(token, opts)
PollStart ==
    /\ poll.pc = "idle"
    /\ \E opts \in PollOptionsSet : poll' = WaitForCompletion(opts)
    /\ UNCHANGED << webhookVars, http, sk, phone >>

\* The get of the poll in progress ends.
PollResponds ==
    /\ poll.pc = "polling"
    /\ \E res \in GetResults : poll' = AfterGet(poll, res)
    /\ UNCHANGED << webhookVars, http, sk, phone >>

\* The timer of the sleep fires.
SleepEnds ==
    /\ poll.pc = "sleeping"
    /\ poll' = AfterSleep(poll)
    /\ UNCHANGED << webhookVars, http, sk, phone >>

\* The caller has the report or the error.
PollReturn ==
    /\ poll.pc = "done"
    /\ poll' = NoPoll
    /\ UNCHANGED << webhookVars, http, sk, phone >>

NextPolling ==
    \/ PollStart
    \/ PollResponds
    \/ SleepEnds
    \/ PollReturn

SpecPolling == InitSdk /\ [][NextPolling]_vars

(***************************************************************************)
(* Phone numbers validated and normalized                                  *)
(***************************************************************************)

\* Phone strings: a country prefix or none, ten or nine digits written in one
\* of four ways, and an ending.
PhoneInputs ==
    { pre \o body \o post :
        pre \in { << >>, << "1" >>, << "+", "1", " " >>, << "2" >>,
                  << "+", "4", "4" >>, << "0", "1" >> },
        body \in { << "5", "5", "5", "1", "2", "3", "4", "5", "6", "7" >>,
                   << "(", "5", "5", "5", ")", " ", "1", "2", "3", "-", "4", "5", "6", "7" >>,
                   << "1", "5", "5", ".", "1", "2", "3", ".", "4", "5", "6", "7" >>,
                   << "5", "5", "5", "1", "2", "3", "4", "5", "6" >>,
                   << "1", "2", "3", "-", "4", "5", "6", EAcute, "7", "8", "9" >> },
        post \in { << >>, << " " >>, << "x", "9" >>, << "0" >>, << " ", "e", "x", "t" >> } }

\* isValidPhone and normalizePhone applied to one string.
ValidatePhone ==
    /\ ~phone.given
    /\ \E s \in PhoneInputs :
         phone' = [given |-> TRUE, input |-> s, valid |-> IsValidPhone(s),
                   normalized |-> NormalizePhone(s)]
    /\ UNCHANGED << webhookVars, http, poll, sk >>

PhoneReturn ==
    /\ phone.given
    /\ phone' = NoPhone
    /\ UNCHANGED << webhookVars, http, poll, sk >>

NextPhone ==
    \/ ValidatePhone
    \/ PhoneReturn

SpecPhone == InitSdk /\ [][NextPhone]_vars

(***************************************************************************)
(* The SingleKey client constructed and asked for its base URL             *)
(***************************************************************************)

CustomUrl == "https://custom.singlekey.com"

Configs ==
    { ConfigOf(tok, env, url, tmo) :
        tok \in { Field(FALSE, << >>), Field(TRUE, << >>), Field(TRUE, << " " >>),
                  Field(TRUE, << "t" >>) },
        env \in { Field(FALSE, "") }
                \cup { Field(TRUE, e) : e \in { "", "sandbox", "production", "staging" } },
        url \in { Field(FALSE, ""), Field(TRUE, ""), Field(TRUE, CustomUrl),
                  Field(TRUE, SandboxUrl) },
        tmo \in { Field(FALSE, 0), Field(TRUE, 0), Field(TRUE, 0 - 1), Field(TRUE, 30000) } }

\* new SingleKey(config)
Construct ==
    /\ ~sk.made
    /\ \E c \in Configs : sk' = NewSingleKey(c)
    /\ UNCHANGED << webhookVars, http, poll, phone >>

\* client.getBaseUrl()
AskBaseUrl ==
    /\ sk.made /\ sk.error = "" /\ ~sk.asked
    /\ sk' = [sk EXCEPT !.asked = TRUE, !.baseUrl = GetBaseUrl(sk.config)]
    /\ UNCHANGED << webhookVars, http, poll, phone >>

\* The client, or the error of its constructor, is dropped.
Discard ==
    /\ sk.made
    /\ sk' = NoClient
    /\ UNCHANGED << webhookVars, http, poll, phone >>

NextClient ==
    \/ Construct
    \/ AskBaseUrl
    \/ Discard

SpecClient == InitSdk /\ [][NextClient]_vars

(***************************************************************************)
(* Properties                                                              *)
(***************************************************************************)

InSeq(x, xs) == \E i \in 1..Len(xs) : xs[i] = x

IsVerify == call.op = "verifySignature"
IsParse == call.op = "parseWebhook"

\* The digest the handler expects for the arguments of the call.
Expected == HmacSha256Hex(secret.str, call.timestamp \o << "." >> \o call.payload)

\* Whether s is an integer numeral: an optional sign, then digits only.
IsIntegerNumeral(s) ==
    LET d == IF s # << >> /\ s[1] \in { "+", "-" } THEN Tail(s) ELSE s
    IN  d # << >> /\ \A i \in 1..Len(d) : IsDigit(d[i])

\* Whether the call went past the freshness check.
PassedFreshness == result.message # MsgStale /\ InSeq("hmac", result.steps)

\* C1: verifySignature returns true only if a secret is configured, the timestamp
\* parses as an integer t with |now - t| <= tolerance, and the signature given is
\* the lowercase hex HMAC-SHA256 of "<timestamp>.<payload>" under the secret.
C1_TrueOnlyIfAllChecksPass ==
    (IsVerify /\ result.status = "true") =>
        /\ secret.given /\ secret.str # << >>
        /\ ~ParseInt(call.timestamp).nan
        /\ Abs(call.clock - ParseInt(call.timestamp).value) <= tolerance
        /\ call.signature = Expected
        /\ Len(call.signature) = 2 * DigestBytes
        /\ \A i \in 1..Len(call.signature) : InSeq(call.signature[i], HexDigits)

\* A direct call that returned true on a timestamp 300 seconds old.
C1_Witness ==
    /\ IsVerify /\ call.origin = "direct" /\ result.status = "true"
    /\ call.timestamp = NumberToString(call.clock - 300)

\* C2: on a handler with a secret and tolerance w, a timestamp that parses as t
\* passes the freshness check exactly when |now - t| <= w, and is rejected as
\* stale otherwise; with w = 300 the last accepted distances are -300 and +300.
C2_FreshnessBoundary ==
    (IsVerify /\ SecretConfigured(secret) /\ ~ParseInt(call.timestamp).nan) =>
        LET t == ParseInt(call.timestamp).value
            d == IF call.clock < t THEN t - call.clock ELSE call.clock - t
        IN  /\ PassedFreshness <=> d <= tolerance
            /\ d > tolerance =>
                  /\ result.status = "threw"
                  /\ result.errorClass = WebhookVerificationError
                  /\ result.message = MsgStale
            /\ tolerance = 300 => (PassedFreshness <=> d \in 0..300)

\* With tolerance 300, a timestamp 301 seconds in the future was rejected as stale.
C2_Witness ==
    /\ IsVerify /\ tolerance = 300 /\ SecretConfigured(secret)
    /\ call.timestamp = NumberToString(call.clock + 301)
    /\ result.message = MsgStale

\* The other three boundary cases of C2, each reached.
C2_WitnessOld ==
    /\ IsVerify /\ tolerance = 300 /\ call.timestamp = NumberToString(call.clock - 301)
    /\ result.message = MsgStale
C2_WitnessEdgeOld ==
    /\ IsVerify /\ tolerance = 300 /\ call.timestamp = NumberToString(call.clock - 300)
    /\ PassedFreshness
C2_WitnessEdgeNew ==
    /\ IsVerify /\ tolerance = 300 /\ call.timestamp = NumberToString(call.clock + 300)
    /\ PassedFreshness

\* The fixture of the call was signed with the secret the handler is configured with.
SameSecret ==
    /\ call.origin = "fixture"
    /\ secret.given /\ secret.str # << >>
    /\ call.fixture.secret = secret.str

C4_TamperReturnsFalse ==
    call.origin = "tamper" => result.status = "false"

\* C4 amended: after such a change verifySignature never returns true.  It
\* returns false when the payload was changed, when the signature was changed
\* to one of the same byte length, and when the changed timestamp still parses
\* to a time within the tolerance; in every other case it fails.
C4_TamperNeverTrue ==
    call.origin = "tamper" =>
        LET t == ParseInt(call.timestamp)
            sameBytes == Len(Utf8(call.signature)) = Len(Utf8(call.base.signature))
            falseCase ==
                \/ call.target = "payload"
                \/ call.target = "signature" /\ sameBytes
                \/ /\ call.target = "timestamp"
                   /\ ~t.nan
                   /\ Abs(call.clock - t.value) <= tolerance
        IN  /\ result.status # "true"
            /\ falseCase <=> result.status = "false"
            /\ ~falseCase <=> result.status = "threw"

\* The last character of the signature of a verifying delivery was changed and
\* the call returned false.
C4_Witness ==
    /\ call.origin = "tamper" /\ call.target = "signature"
    /\ call.signature[2 * DigestBytes] # call.base.signature[2 * DigestBytes]
    /\ result.status = "false"

\* C5: on a handler constructed without a secret (none, or the empty string)
\* verifySignature fails with the configuration failure whatever its arguments
\* are, and runs no other check.
C5_NoSecretIsConfigurationFailure ==
    (IsVerify /\ (~options.secretGiven \/ options.secret = << >>)) =>
        /\ result.status = "threw"
        /\ result.errorClass = WebhookVerificationError
        /\ result.message = MsgNotConfigured
        /\ result.steps = << "secret" >>

\* A handler given the empty secret failed with the configuration failure on a
\* timestamp that is no number.
C5_Witness ==
    /\ IsVerify /\ options.secretGiven /\ options.secret = << >>
    /\ call.timestamp = << "x" >>
    /\ result.message = MsgNotConfigured

\* The outcome of verifySignature on the arguments of the call.
Verification ==
    VerifySignature(secret, tolerance, call.clock,
                    call.payload, call.signature, call.timestamp)

\* C6: with a secret configured, parseWebhook verifies before it parses: when
\* verification does not pass, the outcome is the failure of the verification
\* and the body is not parsed, whether or not it is JSON; a parse failure
\* happens only after verification returned true.
C6_VerifyBeforeParse ==
    (IsParse /\ SecretConfigured(secret)) =>
        /\ Verification.status # "true" =>
              /\ result.status = "threw"
              /\ result.message \in
                    { MsgTimestampFormat, MsgStale, MsgInvalidSignature, MsgBufferLength }
              /\ ~InSeq("JSON.parse", result.steps)
        /\ result.message = MsgInvalidJson =>
              /\ Verification.status = "true"
              /\ result.steps = Append(Verification.steps, "JSON.parse")

\* A body that is not JSON came with a wrong signature: the failure is the
\* signature's.
C6_Witness ==
    /\ IsParse /\ SecretConfigured(secret) /\ call.payload = PCut
    /\ result.message = MsgInvalidSignature

\* A body that is not JSON came with the right signature: the failure is the parse's.
C6_WitnessParse ==
    /\ IsParse /\ SecretConfigured(secret) /\ call.payload = PCut
    /\ result.message = MsgInvalidJson

\* C7 as stated: verifySignature fails with the format failure for every
\* timestamp that is not an integer numeral, before freshness and the digest.
C7_NonNumeralIsFormatFailure ==
    (IsVerify /\ SecretConfigured(secret) /\ ~IsIntegerNumeral(call.timestamp)) =>
        /\ result.status = "threw"
        /\ result.message = MsgTimestampFormat
        /\ ~InSeq("freshness", result.steps)
        /\ ~InSeq("hmac", result.steps)

\* C8 as stated: every failure of verifySignature and parseWebhook is a
\* WebhookVerificationError.
C8_OnlyWebhookVerificationError ==
    ((IsVerify \/ IsParse) /\ result.status = "threw") =>
        result.errorClass = WebhookVerificationError

\* C9 as stated: parseWebhook on a handler with no configured secret raises the
\* configuration error.
C9_ParseWithoutSecretThrowsConfiguration ==
    (IsParse /\ ~SecretConfigured(secret)) =>
        result.status = "threw" /\ result.message = MsgNotConfigured

\* C9 amended: parseWebhook on a handler with no configured secret never raises
\* the configuration error and never reports a failed verification: it does not
\* verify at all.
C9_ParseWithoutSecretSkipsVerification ==
    (IsParse /\ ~SecretConfigured(secret)) =>
        /\ result.message \notin
              { MsgNotConfigured, MsgTimestampFormat, MsgStale, MsgInvalidSignature,
                MsgBufferLength }
        /\ ~InSeq("secret", result.steps)
        /\ ~InSeq("timingSafeEqual", result.steps)

\* A handler with no secret returned an event for a delivery with an empty signature.
C9_Witness ==
    /\ IsParse /\ ~secret.given /\ call.signature = << >>
    /\ result.status = "returned"

EventKey == << "e", "v", "e", "n", "t" >>

\* C10: on a handler with no configured secret parseWebhook goes straight to
\* parsing, whatever the signature and the timestamp are: it returns the value
\* of a body that is JSON and fails with the parse failure on any other body.
C10_NoSecretParsesDirectly ==
    (IsParse /\ ~SecretConfigured(secret)) =>
        /\ result.steps = << "JSON.parse" >>
        /\ call.payload = PEvent =>
              /\ result.status = "returned"
              /\ result.value = JObject(<< [key |-> EventKey, val |-> JString(<< "a" >>)] >>)
        /\ call.payload = PNull => result.status = "returned" /\ result.value = JNull
        /\ call.payload = PNumber => result.status = "returned" /\ result.value = JNumber(7)
        /\ call.payload \in { PCut, PEmpty } =>
              /\ result.status = "threw"
              /\ result.errorClass = WebhookVerificationError
              /\ result.message = MsgInvalidJson

\* A handler with no secret failed with the parse failure on a cut body that
\* came with a stale timestamp.
C10_Witness ==
    /\ IsParse /\ ~SecretConfigured(secret) /\ call.payload = PCut
    /\ call.timestamp = NumberToString(call.clock - 301)
    /\ result.message = MsgInvalidJson

\* The fields of BaseWebhookPayload, and data.
EnvelopeKeys ==
    { EventKey,
      << "t", "i", "m", "e", "s", "t", "a", "m", "p" >>,
      << "w", "e", "b", "h", "o", "o", "k", "_", "i", "d" >>,
      << "a", "p", "i", "_", "v", "e", "r", "s", "i", "o", "n" >>,
      << "d", "a", "t", "a" >> }

HasKey(v, k) ==
    v.type = "object" /\ \E i \in 1..Len(v.members) : v.members[i].key = k

\* C15: parseWebhook returns only values that carry the envelope (event,
\* timestamp, webhook_id, api_version, data): a body that is the JSON null, a
\* number, or an object without an event is rejected, never returned.
C15_ParseReturnsEnvelope ==
    (IsParse /\ result.status = "returned") =>
        /\ result.value.type = "object"
        /\ \A k \in EnvelopeKeys : HasKey(result.value, k)

\* The tolerance the options passed at construction name.
PassedTolerance == IF options.toleranceGiven THEN options.tolerance ELSE DefaultTolerance

\* C16: the tolerance verifySignature uses is the value passed at construction,
\* or 300 when none was passed: every call that reaches the freshness check
\* fails it exactly when the timestamp is further than that from the clock.
C16_ToleranceIsValuePassed ==
    (IsVerify /\ InSeq("freshness", result.steps)) =>
        (result.message = MsgStale
            <=> Abs(call.clock - ParseInt(call.timestamp).value) > PassedTolerance)

\* The delivery of the call.
Delivery == Triple(call.payload, call.signature, call.timestamp)

StepOrder == << "secret", "clock", "parseInt", "freshness", "hmac", "timingSafeEqual" >>

IsPrefix(xs, ys) == Len(xs) <= Len(ys) /\ xs = SubSeq(ys, 1, Len(xs))

Count(x, xs) == Cardinality({ i \in 1..Len(xs) : xs[i] = x })

\* The timestamp of the call reads as a number too far from the clock.
StaleCall ==
    /\ ~ParseInt(call.timestamp).nan
    /\ Abs(call.clock - ParseInt(call.timestamp).value) > tolerance

\* The order of the checks, and no digest after a check that failed.
ChecksInOrder ==
    IsVerify =>
        /\ IsPrefix(result.steps, StepOrder)
        /\ result.message \in { MsgNotConfigured, MsgTimestampFormat, MsgStale }
              => ~InSeq("hmac", result.steps) /\ ~InSeq("timingSafeEqual", result.steps)
        /\ ~SecretConfigured(secret) => result.message = MsgNotConfigured
        /\ (SecretConfigured(secret) /\ ParseInt(call.timestamp).nan)
              => result.message = MsgTimestampFormat
        /\ (SecretConfigured(secret) /\ StaleCall) => result.message = MsgStale

\* C26, as stated: in every verifySignature call the checks run in the order
\* configuration, timestamp format, freshness, digest comparison, no digest is
\* computed after a check that failed, and the clock is read exactly once.
C26_ClockReadOnceInEveryCall ==
    /\ ChecksInOrder
    /\ IsVerify => Count("clock", result.steps) = 1

\* C26, amended: the same order and no digest after a failed check; the clock
\* is read once in every call on a handler with a secret, and not at all in a
\* call that fails the configuration check.
C26_ClockReadOnceWhenConfigured ==
    /\ ChecksInOrder
    /\ IsVerify =>
          Count("clock", result.steps) = (IF SecretConfigured(secret) THEN 1 ELSE 0)

\* A stale timestamp that came with the sender's digest, and one that came with
\* a signature of another length, both failed as stale with no digest computed.
C26_Witness ==
    /\ IsVerify /\ SecretConfigured(secret) /\ StaleCall
    /\ call.signature = << >>
    /\ result.steps = << "secret", "clock", "parseInt", "freshness" >>
    /\ result.message = MsgStale

C26_WitnessSigned ==
    /\ IsVerify /\ SecretConfigured(secret) /\ StaleCall
    /\ call.signature = Expected
    /\ result.message = MsgStale

\* C20: constructWebhookSignature(payload, secret, t) returns as timestamp the
\* decimal string of t for every t supplied, and of the current time only when
\* t is omitted; the signature is the hex HMAC, under secret, of the returned
\* timestamp, a dot and the payload.
C20_FixtureCarriesGivenTimestamp ==
    call.fixture.made =>
        /\ call.fixture.timestamp =
              (IF call.fixture.arg.given THEN NumberToString(call.fixture.arg.num)
               ELSE NumberToString(call.fixture.signedAt))
        /\ call.fixture.signature =
              HmacSha256Hex(call.fixture.secret,
                            call.fixture.timestamp \o << "." >> \o call.payload)

(***************************************************************************)
(* The dispatch function                                                   *)
(***************************************************************************)

Dispatched == disp.pc # "idle"
TheHandler(d) ==
    [kind |-> "handler", name |-> d.webhook.event,
     behaviour |-> d.handlers[d.webhook.event]]

\* C11: for an event whose tag is no key of the handler map given to on(), be
\* it one of the six known tags or any other string, the dispatch calls no
\* handler and completes normally, without an error.
C11_UnregisteredTagIsNoOp ==
    (Dispatched /\ ~Registered(disp.handlers, disp.webhook.event))
        => /\ disp.invoked = << >>
           /\ disp.pc = "done"
           /\ disp.outcome = "fulfilled"

\* C12: for an event whose tag is a key of the handler map, the dispatch calls
\* the handler registered for that tag, once, with the event's data, and no
\* other handler; no dispatch calls more than one handler.
C12_RegisteredHandlerCalledOnce ==
    /\ Len(disp.invoked) <= 1
    /\ (Dispatched /\ Registered(disp.handlers, disp.webhook.event))
         => disp.invoked = << [fn |-> TheHandler(disp), arg |-> disp.webhook.data] >>

C12_Witness ==
    /\ disp.pc = "done"
    /\ Registered(disp.handlers, disp.webhook.event)
    /\ \E t \in KnownTags : t # disp.webhook.event /\ Registered(disp.handlers, t)
    /\ disp.invoked = << [fn |-> TheHandler(disp), arg |-> disp.webhook.data] >>

\* C13: when the handler the dispatch called threw, or returned a promise that
\* was rejected, the dispatch fails with that same error, and the handler was
\* called once only.
C13_HandlerErrorPropagates ==
    (disp.pc = "done" /\ disp.handlerState \in { "threw", "rejected" })
        => /\ disp.outcome = "rejected"
           /\ disp.error = disp.handlerError
           /\ disp.error = HandlerError(disp.webhook.event)
           /\ Len(disp.invoked) = 1

C13_Witness ==
    /\ disp.pc = "done"
    /\ disp.handlerState = "rejected"
    /\ disp.outcome = "rejected"
    /\ disp.error = HandlerError(disp.webhook.event)

C13_WitnessThrow ==
    /\ disp.pc = "done"
    /\ disp.handlerState = "threw"
    /\ disp.outcome = "rejected"

\* C14: the dispatch is not complete while the asynchronous work of the handler
\* it called is not: its promise stays pending until the handler's has settled.
C14_CompletesAfterHandler ==
    /\ (disp.pc = "done" /\ disp.invoked # << >>) => disp.handlerState # "pending"
    /\ disp.handlerState = "pending" => disp.outcome = "pending"

C14_Witness ==
    /\ disp.pc = "done"
    /\ disp.invoked # << >>
    /\ disp.invoked[1].fn.behaviour = "resolves"
    /\ disp.handlerState = "fulfilled"
    /\ disp.outcome = "fulfilled"

(***************************************************************************)
(* The middleware                                                          *)
(***************************************************************************)

\* The verification of the request the middleware handled.
RequestVerification ==
    VerifySignature(secret, tolerance, mw.clock,
                    mw.req.body.text, mw.req.signature.str, mw.req.timestamp.str)

BothHeaders == Truthy(mw.req.signature) /\ Truthy(mw.req.timestamp)

\* C18: with a secret configured, every request that carries both headers and
\* fails verification (a timestamp that is no integer, a stale one, or a
\* signature of any length that does not match) is answered with status 401,
\* and next() is not called.
C18_FailedVerificationIs401 ==
    (mw.handled /\ SecretConfigured(secret) /\ mw.req.body.kind = "buffer"
       /\ BothHeaders /\ RequestVerification.status # "true")
        => mw.status = 401 /\ mw.nextCalls = 0

\* C19: a request that passes verification and whose body is not well-formed
\* JSON is answered with status 400, not 401.
C19_BadJsonIs400 ==
    (mw.handled /\ SecretConfigured(secret) /\ mw.req.body.kind = "buffer"
       /\ BothHeaders /\ RequestVerification.status = "true"
       /\ ~JSONParse(mw.req.body.text).ok)
        => mw.status = 400

\* C27: for each request the middleware has one outcome: it attaches the event
\* and calls next() once and sends no response, or it sends one error response
\* and does not call next(); never both, also when next() itself fails.
C27_OneOutcomePerRequest ==
    mw.handled =>
        \/ mw.nextCalls = 1 /\ mw.status = 0 /\ mw.attached # JUndefined
        \/ mw.nextCalls = 0 /\ mw.status \in { 400, 401 }

\* C28: the middleware attaches an event and calls next() only for a body whose
\* signature was verified against a secret, whatever options it was made with,
\* an empty or undefined secret included.
C28_OnlyVerifiedReachNext ==
    (mw.handled /\ (mw.nextCalls > 0 \/ mw.attached # JUndefined))
        => SecretConfigured(secret) /\ RequestVerification.status = "true"

(***************************************************************************)
(* The HttpClient                                                          *)
(***************************************************************************)

\* The class the documentation names for a status.
ClassOfStatus(st) ==
    CASE st = 400 -> "ValidationError"
      [] st = 401 -> "AuthenticationError"
      [] st = 404 -> "NotFoundError"
      [] st = 429 -> "RateLimitError"
      [] st >= 500 -> "ServerError"
      [] OTHER -> "APIError"

\* C22: every HTTP error response is mapped by its status: 400, 401, 404 and
\* 429 to their classes, every status from 500 up to ServerError carrying
\* that status, any other status to APIError; a failure with no response maps
\* to ServerError.
C22_ErrorMappedByStatus ==
    (http.called /\ ~http.res.ok) =>
        /\ http.status = "threw"
        /\ IF http.res.error.hasResponse
           THEN /\ http.error.class = ClassOfStatus(http.res.error.status)
                /\ http.res.error.status >= 500
                     => http.error.statusCode = http.res.error.status
           ELSE http.error.class = "ServerError"

(***************************************************************************)
(* waitForCompletion                                                       *)
(***************************************************************************)

Polls == Count("poll", poll.trace)
Sleeps == Count("sleep", poll.trace)

\* The maxAttempts of the claim: the value given, or 40 when none is.
ClaimedMaxAttempts ==
    IF poll.options.maxGiven THEN poll.options.maxAttempts ELSE DefaultMaxAttempts

\* C21: waitForCompletion returns the first polled report that is complete and
\* polls no more after it; if no poll is complete it throws an Error; it never
\* makes more polls than the maxAttempts given, or 40 when none is given.
C21_FirstCompleteWithinMaxAttempts ==
    /\ Polls <= ClaimedMaxAttempts
    /\ (poll.pc = "done" /\ poll.status = "returned")
          => IsComplete(poll.last) /\ Polls = poll.incomplete + 1
    /\ (poll.pc = "done" /\ poll.status = "threw" /\ poll.last.kind = "report")
          => poll.error.class = "Error" /\ Polls = poll.incomplete

\* C23: every error raised to the caller by the operations of the HttpClient
\* and of the report service, waitForCompletion running out of attempts
\* included, is an instance of SingleKeyError.
C23_EveryErrorIsSingleKeyError ==
    (poll.pc = "done" /\ poll.status = "threw")
        => InstanceOfSingleKeyError(poll.error.class)

\* C29: in waitForCompletion polls and sleeps alternate, beginning and ending
\* with a poll, so that k polls have k - 1 sleeps between them; an error of a
\* poll ends the call at once with that error.
C29_PollsAndSleepsAlternate ==
    /\ \A i \in 1..Len(poll.trace) :
          poll.trace[i] = (IF i % 2 = 1 THEN "poll" ELSE "sleep")
    /\ poll.pc \in { "polling", "done" } => Sleeps = (IF Polls = 0 THEN 0 ELSE Polls - 1)
    /\ poll.pc = "sleeping" => Sleeps = Polls /\ Polls < poll.maxAttempts
    /\ (poll.pc = "done" /\ poll.last.kind = "error")
          => /\ poll.status = "threw"
             /\ poll.error = HandleError(poll.last.error)
             /\ Polls = poll.incomplete + 1

\* Three polls with two sleeps between them, none complete.
C29_Witness ==
    /\ poll.pc = "done" /\ poll.error.class = "Error"
    /\ poll.trace = << "poll", "sleep", "poll", "sleep", "poll" >>

\* The second poll failed and its error ended the call.
C29_WitnessError ==
    /\ poll.pc = "done" /\ poll.last.kind = "error"
    /\ poll.error.class = "NotFoundError"
    /\ poll.trace = << "poll", "sleep", "poll" >>

(***************************************************************************)
(* Phone numbers, and the base URL                                         *)
(***************************************************************************)

\* C24: for every phone string isValidPhone accepts (10 or 11 digits after the
\* other characters are stripped), normalizePhone returns exactly 10 digits.
C24_NormalizedHasTenDigits ==
    (phone.given /\ phone.valid) =>
        /\ Len(phone.normalized) = 10
        /\ \A i \in 1..Len(phone.normalized) : IsDigit(phone.normalized[i])

\* C30: for every configuration the constructor accepts getBaseUrl() returns
\* the base URL the HttpClient was created with: the custom baseUrl when one
\* is given, else the sandbox URL for environment 'sandbox' and the production
\* URL otherwise.
C30_GetBaseUrlIsHttpBaseURL ==
    (sk.made /\ sk.asked) =>
        /\ sk.baseUrl = sk.httpBaseURL
        /\ sk.baseUrl =
             (IF sk.config.baseUrl.given /\ sk.config.baseUrl.val # ""
              THEN sk.config.baseUrl.val
              ELSE IF sk.config.environment.given /\ sk.config.environment.val = "sandbox"
              THEN SandboxUrl ELSE ProductionUrl)

\* A client made with a custom base URL and the sandbox environment answers
\* the custom URL; one made with an empty environment, the production URL.
C30_Witness ==
    /\ sk.made /\ sk.asked
    /\ sk.config.environment = Field(TRUE, "sandbox")
    /\ sk.config.baseUrl = Field(TRUE, CustomUrl)
    /\ sk.baseUrl = CustomUrl /\ sk.httpBaseURL = CustomUrl

C30_WitnessEmpty ==
    /\ sk.made /\ sk.asked
    /\ sk.config.environment = Field(TRUE, "")
    /\ sk.config.baseUrl = Field(TRUE, "")
    /\ sk.baseUrl = ProductionUrl

====
